---- MODULE Spec2Model ----
(***************************************************************************)
(* Payroll backend: the time ledger (routers/hitl.py), the payroll        *)
(* records, calculator and period processor (routers/processing.py) and   *)
(* the deletion of users (routers/users.py) over the tables of models.py. *)
(*                                                                         *)
(* Units: a datetime is a number of minutes, a date is a day number,      *)
(* hours are kept in hundredths of an hour (the code rounds them to two   *)
(* decimals) and money in cents.  Free-text columns (notes, names) decide *)
(* nothing and are left out.                                               *)
(***************************************************************************)
EXTENDS Integers, FiniteSets, Sequences, TLC

\* ------------------------------------------------------------------ bounds
MaxEntries == 2
MaxRecords == 2
MaxDate == 2
MaxWorkers == 2

\* ------------------------------------------------------- program constants
\* Column value NULL / Python None.
NULL == -1000000
\* A field the request body did not set (dict(exclude_unset=True)).
UNSET == -1000001
\* 8.0 hours per day, in hundredths of an hour.
DailyThreshold == 800
\* 40.0 hours per week, in hundredths of an hour.
WeeklyThreshold == 4000

\* ------------------------------------------------------------ input ranges
Dates == 1..MaxDate
\* clock-in instants and clock-out instants (before, at, shortly after and more
\* than eight hours after the clock-in), and break lengths, in minutes
ClockInTimes == {20}
ClockOutTimes == {0, 20, 30, 560}
Breaks == {0, 30}
EntryStatuses == {"active", "completed", "approved"}
PayrollStatuses == {"pending", "approved", "paid"}

\* users table: id -> is_admin
UserTable == (1 :> [is_admin |-> TRUE, is_active |-> TRUE])
          @@ (2 :> [is_admin |-> FALSE, is_active |-> TRUE])
          @@ (3 :> [is_admin |-> FALSE, is_active |-> FALSE])
          @@ (4 :> [is_admin |-> FALSE, is_active |-> TRUE])

\* employees table: id -> row.  Salary in dollars a year, rate in cents an hour.
EmployeeTable ==
    (11 :> [id |-> 11, user_id |-> 1, salary |-> 52000, hourly_rate |-> NULL,
            employment_type |-> "full_time", is_active |-> TRUE])
 @@ (12 :> [id |-> 12, user_id |-> 2, salary |-> 75000, hourly_rate |-> 3606,
            employment_type |-> "full_time", is_active |-> TRUE])
 @@ (13 :> [id |-> 13, user_id |-> 3, salary |-> 26000, hourly_rate |-> 2000,
            employment_type |-> "contract", is_active |-> FALSE])

\* The authenticated principal handed to a handler: the user's id and
\* is_admin flag, and the permissions of the token.  Inactive users get no
\* token (login answers "Inactive user").
Principals ==
    { [id |-> u, is_admin |-> UserTable[u].is_admin,
       permissions |-> IF UserTable[u].is_admin THEN {"admin"} ELSE {}] :
        u \in {v \in DOMAIN UserTable : UserTable[v].is_active} }

VARIABLES
    users,            \* table users: the ids of the rows (UserTable has the columns)
    time_entries,     \* table time_entries: id -> row
    payroll_records,  \* table payroll_records: id -> row
    clock_outs,       \* history: the entries a clock_out call has closed
    pending,          \* requests in flight (concurrent workers): slot -> request
    result            \* the response of the last request

vars == <<users, time_entries, payroll_records, clock_outs, pending, result>>

\* ------------------------------------------------------------------ helpers
Max(a, b) == IF a >= b THEN a ELSE b
Min(a, b) == IF a <= b THEN a ELSE b

MaxOf(S) == CHOOSE x \in S : \A y \in S : y <= x

\* Autoincrement primary key of a table.
NextId(table) == IF DOMAIN table = {} THEN 1 ELSE MaxOf(DOMAIN table) + 1

\* round(k*n/d) for d > 0 and k, n >= 0 or small, to the nearest integer, exact
\* ties to even; the product k*n is never formed (it may pass 2^31).
RoundMulDiv(k, n, d) ==
    LET a == n \div d
        b == n % d
        w == k * a + (k * b) \div d
        r == (k * b) % d
    IN  IF 2 * r < d THEN w
        ELSE IF 2 * r > d THEN w + 1
        ELSE IF w % 2 = 0 THEN w ELSE w + 1

\* round(n/d)
RoundDiv(n, d) == RoundMulDiv(1, n, d)

\* A response: the handler, the status code, the detail of an error, from
\* process_payroll_period the number of records processed and the period, and
\* from a read the rows returned.
Response(op, code, detail) ==
    [op |-> op, code |-> code, detail |-> detail, n |-> 0, period |-> <<>>,
     body |-> {}]

\* Employee.user_id as stored: db.delete(user) sets the user_id of the user's
\* employee profile to NULL (the relationship has no delete cascade).
UserIdOf(employee_id) ==
    IF EmployeeTable[employee_id].user_id \in users
    THEN EmployeeTable[employee_id].user_id ELSE NULL

\* db.query(Employee).filter(Employee.user_id == current_user.id).first()
EmployeeOf(p) ==
    IF \E e \in DOMAIN EmployeeTable : UserIdOf(e) = p.id
    THEN EmployeeTable[CHOOSE e \in DOMAIN EmployeeTable : UserIdOf(e) = p.id]
    ELSE [id |-> NULL, user_id |-> NULL, salary |-> NULL, hourly_rate |-> NULL,
          employment_type |-> "none", is_active |-> FALSE]

\* require_admin letting every token through.
RequireAdmin_anyone(p) == TRUE

\* require_admin: 'admin' in permissions
RequireAdmin(p) == "admin" \in p.permissions

\* The commit of payroll rows is refused (IntegrityError, answered 500) when
\* one has no employee_user_id: the column is nullable=False.
IntegrityError(rows) == \E r \in rows : r.employee_user_id = NULL

\* ---------------------------------------------------------- calculate_hours
\* calculate_hours with a total below zero stored as zero.
calculate_hours_floor_zero(clock_in, clock_out, break_duration) ==
    IF clock_out <= clock_in
    THEN [exc |-> "ValueError", total_hours |-> NULL, overtime_hours |-> NULL]
    ELSE LET total_minutes == Max(0, (clock_out - clock_in) - break_duration)
         IN  [exc |-> "none",
              total_hours |-> RoundDiv(total_minutes * 100, 60),
              overtime_hours |-> RoundDiv(Max(0, total_minutes * 100 - DailyThreshold * 60), 60)]

\* calculate_hours with the comparison weakened to clock_out < clock_in.
calculate_hours_strict(clock_in, clock_out, break_duration) ==
    IF clock_out < clock_in
    THEN [exc |-> "ValueError", total_hours |-> NULL, overtime_hours |-> NULL]
    ELSE LET total_minutes == (clock_out - clock_in) - break_duration
         IN  [exc |-> "none",
              total_hours |-> RoundDiv(total_minutes * 100, 60),
              overtime_hours |-> RoundDiv(Max(0, total_minutes * 100 - DailyThreshold * 60), 60)]

\* calculate_hours with the overtime taken before the break is subtracted.
calculate_hours_gross_overtime(clock_in, clock_out, break_duration) ==
    IF clock_out <= clock_in
    THEN [exc |-> "ValueError", total_hours |-> NULL, overtime_hours |-> NULL]
    ELSE LET total_minutes == (clock_out - clock_in) - break_duration
         IN  [exc |-> "none",
              total_hours |-> RoundDiv(total_minutes * 100, 60),
              overtime_hours |-> RoundDiv(Max(0, (clock_out - clock_in) * 100
                                                   - DailyThreshold * 60), 60)]

\* calculate_hours(clock_in, clock_out, break_duration): the pair
\* (round(total_hours, 2), round(overtime_hours, 2)) or the exception raised.
calculate_hours(clock_in, clock_out, break_duration) ==
    IF clock_out <= clock_in
    THEN [exc |-> "ValueError", total_hours |-> NULL, overtime_hours |-> NULL]
    ELSE LET total_minutes == (clock_out - clock_in) - break_duration
         IN  [exc |-> "none",
              total_hours |-> RoundDiv(total_minutes * 100, 60),
              overtime_hours |-> RoundDiv(Max(0, total_minutes * 100 - DailyThreshold * 60), 60)]

\* -------------------------------------------------------------- time ledger
\* POST /time/entries.  The body is a TimeEntryCreate: date, clock_in,
\* clock_out, break_duration and status all come from the client (the body's
\* own employee_id is superseded by employee_id=employee.id).
ClockIn(p, body) ==
    LET employee == EmployeeOf(p)
        existing == \E i \in DOMAIN time_entries :
                        /\ time_entries[i].employee_id = employee.id
                        /\ time_entries[i].date = body.date
                        /\ time_entries[i].status = "active"
        id == NextId(time_entries)
    IN  IF employee.id = NULL THEN
            /\ result' = Response("clock_in", 404, "Employee profile not found")
            /\ UNCHANGED <<time_entries, payroll_records, clock_outs, pending, users>>
        ELSE IF existing THEN
            /\ result' = Response("clock_in", 400, "Already clocked in for today")
            /\ UNCHANGED <<time_entries, payroll_records, clock_outs, pending, users>>
        ELSE
            /\ Cardinality(DOMAIN time_entries) < MaxEntries
            /\ time_entries' = time_entries @@
                   (id :> [id |-> id, employee_id |-> employee.id, date |-> body.date,
                           clock_in |-> body.clock_in, clock_out |-> body.clock_out,
                           break_duration |-> body.break_duration,
                           total_hours |-> NULL, overtime_hours |-> 0,
                           status |-> body.status])
            /\ clock_outs' = clock_outs \ {id}
            /\ result' = Response("clock_in", 200, "")
            /\ UNCHANGED <<payroll_records, pending, users>>

\* "if entry.clock_out:" never set.
AlreadyClockedOut_never(entry) == FALSE

\* if entry.clock_out: "Already clocked out"
AlreadyClockedOut(entry) == entry.clock_out # NULL

\* PUT /time/entries/{entry_id}/clock-out
ClockOut(p, entry_id, clock_out_time, break_duration) ==
    LET employee == EmployeeOf(p)
        found == /\ entry_id \in DOMAIN time_entries
                 /\ time_entries[entry_id].employee_id = employee.id
        entry == time_entries[entry_id]
        \* break_duration or entry.break_duration
        brk == IF break_duration # 0 THEN break_duration ELSE entry.break_duration
        hours == calculate_hours(entry.clock_in, clock_out_time, brk)
    IN  IF employee.id = NULL THEN
            /\ result' = Response("clock_out", 404, "Employee profile not found")
            /\ UNCHANGED <<time_entries, payroll_records, clock_outs, pending, users>>
        ELSE IF ~found THEN
            /\ result' = Response("clock_out", 404, "Time entry not found")
            /\ UNCHANGED <<time_entries, payroll_records, clock_outs, pending, users>>
        ELSE IF AlreadyClockedOut(entry) THEN
            /\ result' = Response("clock_out", 400, "Already clocked out")
            /\ UNCHANGED <<time_entries, payroll_records, clock_outs, pending, users>>
        ELSE IF hours.exc = "ValueError" THEN
            /\ result' = Response("clock_out", 400, "Clock out time must be after clock in time")
            /\ UNCHANGED <<time_entries, payroll_records, clock_outs, pending, users>>
        ELSE
            /\ time_entries' = [time_entries EXCEPT ![entry_id] =
                   [@ EXCEPT !.clock_out = clock_out_time,
                             !.break_duration = brk,
                             !.total_hours = hours.total_hours,
                             !.overtime_hours = hours.overtime_hours,
                             !.status = "completed"]]
            /\ clock_outs' = clock_outs \cup {entry_id}
            /\ result' = Response("clock_out", 200, "")
            /\ UNCHANGED <<payroll_records, pending, users>>

\* The approval check dropped.
SelfApproval_never(p, upd) == FALSE

\* "Non-admin users can't approve their own entries": reached only by a
\* non-admin principal that owns the entry.
SelfApproval(p, upd) == ~p.is_admin /\ upd.status = "approved"

\* PUT /time/entries/{entry_id}.  upd is a TimeEntryUpdate; a field the client
\* left out is UNSET ("UNSET" for status), clock_out may be sent as null.
UpdateEntry(p, entry_id, upd) ==
    LET employee == EmployeeOf(p)
        entry == time_entries[entry_id]
        recalc == upd.clock_out # UNSET \/ upd.break_duration # UNSET
        clock_out == IF upd.clock_out # UNSET THEN upd.clock_out ELSE entry.clock_out
        break_duration == IF upd.break_duration # UNSET THEN upd.break_duration
                          ELSE entry.break_duration
        hours == calculate_hours(entry.clock_in, clock_out, break_duration)
        computed == recalc /\ clock_out # NULL
    IN  IF entry_id \notin DOMAIN time_entries THEN
            /\ result' = Response("update_time_entry", 404, "Time entry not found")
            /\ UNCHANGED <<time_entries, payroll_records, clock_outs, pending, users>>
        ELSE IF ~p.is_admin /\ (employee.id = NULL \/ entry.employee_id # employee.id) THEN
            /\ result' = Response("update_time_entry", 403, "Not authorized to update this entry")
            /\ UNCHANGED <<time_entries, payroll_records, clock_outs, pending, users>>
        ELSE IF SelfApproval(p, upd) THEN
            /\ result' = Response("update_time_entry", 403, "Cannot approve your own time entry")
            /\ UNCHANGED <<time_entries, payroll_records, clock_outs, pending, users>>
        ELSE IF computed /\ hours.exc = "ValueError" THEN
            /\ result' = Response("update_time_entry", 400, "Clock out time must be after clock in time")
            /\ UNCHANGED <<time_entries, payroll_records, clock_outs, pending, users>>
        ELSE
            /\ time_entries' = [time_entries EXCEPT ![entry_id] =
                   [@ EXCEPT !.clock_out = clock_out,
                             !.break_duration = break_duration,
                             !.total_hours = IF computed THEN hours.total_hours ELSE @,
                             !.overtime_hours = IF computed THEN hours.overtime_hours ELSE @,
                             !.status = IF upd.status # "UNSET" THEN upd.status ELSE @]]
            /\ result' = Response("update_time_entry", 200, "")
            /\ UNCHANGED <<payroll_records, clock_outs, pending, users>>

\* DELETE /time/entries/{entry_id} (admin only)
DeleteEntry(p, entry_id) ==
    IF ~RequireAdmin(p) THEN
        /\ result' = Response("delete_time_entry", 403, "Admin privileges required")
        /\ UNCHANGED <<time_entries, payroll_records, clock_outs, pending, users>>
    ELSE IF entry_id \notin DOMAIN time_entries THEN
        /\ result' = Response("delete_time_entry", 404, "Time entry not found")
        /\ UNCHANGED <<time_entries, payroll_records, clock_outs, pending, users>>
    ELSE
        /\ time_entries' = [i \in DOMAIN time_entries \ {entry_id} |-> time_entries[i]]
        /\ clock_outs' = clock_outs \ {entry_id}
        /\ result' = Response("delete_time_entry", 200, "Time entry deleted successfully")
        /\ UNCHANGED <<payroll_records, pending, users>>

Init ==
    /\ users = DOMAIN UserTable
    /\ time_entries = <<>>
    /\ payroll_records = <<>>
    /\ clock_outs = {}
    /\ pending = <<>>
    /\ result = Response("none", 0, "")

\* ------------------------------------------------------------------ payroll
\* calculate_payroll with overtime paid at the plain rate, not at 1.5 times it.
calculate_payroll_flat_overtime(employee, hours_worked, overtime_hours) ==
    LET regular_hours == Min(hours_worked, WeeklyThreshold)
        overtime == IF overtime_hours = 0 THEN Max(0, hours_worked - WeeklyThreshold)
                    ELSE overtime_hours
        hourly == /\ employee.employment_type = "hourly"
                  /\ employee.hourly_rate # NULL
                  /\ employee.hourly_rate # 0
        num == IF hourly
               THEN 2 * regular_hours * employee.hourly_rate
                    + 2 * overtime * employee.hourly_rate
               ELSE IF overtime > 0
                    THEN employee.salary * (8000 + 2 * overtime)
                    ELSE employee.salary * 8000
        den == IF hourly THEN 200 ELSE 4160
    IN  [gross_pay |-> RoundDiv(num, den),
         tax_deductions |-> RoundDiv(num, 4 * den),
         other_deductions |-> RoundDiv(num, 20 * den),
         net_pay |-> RoundMulDiv(7, num, 10 * den),
         hours_worked |-> hours_worked,
         overtime_hours |-> overtime]

\* calculate_payroll(employee, hours_worked, overtime_hours): hours in
\* hundredths, money in cents; gross_pay is kept as the fraction num/den of a
\* cent until round(_, 2).
calculate_payroll(employee, hours_worked, overtime_hours) ==
    LET regular_hours == Min(hours_worked, WeeklyThreshold)
        overtime == IF overtime_hours = 0 THEN Max(0, hours_worked - WeeklyThreshold)
                    ELSE overtime_hours
        hourly == /\ employee.employment_type = "hourly"
                  /\ employee.hourly_rate # NULL
                  /\ employee.hourly_rate # 0
        \* regular*rate + overtime*rate*1.5, in 1/200 cent
        \* salary/52 + overtime*(salary/52/40)*1.5, in 1/4160 cent
        num == IF hourly
               THEN 2 * regular_hours * employee.hourly_rate
                    + 3 * overtime * employee.hourly_rate
               ELSE IF overtime > 0
                    THEN employee.salary * (8000 + 3 * overtime)
                    ELSE employee.salary * 8000
        den == IF hourly THEN 200 ELSE 4160
    IN  [gross_pay |-> RoundDiv(num, den),
         tax_deductions |-> RoundDiv(num, 4 * den),
         other_deductions |-> RoundDiv(num, 20 * den),
         net_pay |-> RoundMulDiv(7, num, 10 * den),
         hours_worked |-> hours_worked,
         overtime_hours |-> overtime]

\* The duplicate check left out.
PeriodExists_never(records, employee_id, start_date, end_date) == FALSE

\* db.query(PayrollRecord).filter(and_(employee_id ==, pay_period_start ==,
\* pay_period_end ==)).first() is not None
PeriodExists(records, employee_id, start_date, end_date) ==
    \E r \in DOMAIN records :
        /\ records[r].employee_id = employee_id
        /\ records[r].pay_period_start = start_date
        /\ records[r].pay_period_end = end_date

\* POST /payroll/records (admin only).  data is a PayrollRecordCreate.
CreatePayrollRecord(p, data) ==
    LET id == NextId(payroll_records)
    IN  IF ~RequireAdmin(p) THEN
            /\ result' = Response("create_payroll_record", 403, "Admin privileges required")
            /\ UNCHANGED <<time_entries, payroll_records, clock_outs, pending, users>>
        ELSE IF data.employee_id \notin DOMAIN EmployeeTable THEN
            /\ result' = Response("create_payroll_record", 404, "Employee not found")
            /\ UNCHANGED <<time_entries, payroll_records, clock_outs, pending, users>>
        ELSE IF PeriodExists(payroll_records, data.employee_id,
                             data.pay_period_start, data.pay_period_end) THEN
            /\ result' = Response("create_payroll_record", 400,
                                  "Payroll record already exists for this period")
            /\ UNCHANGED <<time_entries, payroll_records, clock_outs, pending, users>>
        ELSE IF UserIdOf(data.employee_id) = NULL THEN
            /\ result' = Response("create_payroll_record", 500, "Internal Server Error")
            /\ UNCHANGED <<time_entries, payroll_records, clock_outs, pending, users>>
        ELSE
            /\ Cardinality(DOMAIN payroll_records) < MaxRecords
            /\ payroll_records' = payroll_records @@
                   (id :> [id |-> id,
                           employee_id |-> data.employee_id,
                           employee_user_id |-> UserIdOf(data.employee_id),
                           pay_period_start |-> data.pay_period_start,
                           pay_period_end |-> data.pay_period_end,
                           gross_pay |-> data.gross_pay,
                           tax_deductions |-> data.tax_deductions,
                           other_deductions |-> data.other_deductions,
                           net_pay |-> data.net_pay,
                           hours_worked |-> data.hours_worked,
                           overtime_hours |-> data.overtime_hours,
                           status |-> data.status,
                           processed_at |-> NULL])
            /\ result' = Response("create_payroll_record", 200, "")
            /\ UNCHANGED <<time_entries, clock_outs, pending, users>>

\* datetime.utcnow(): some instant, which one decides nothing.
UtcNow == 1

\* PUT /payroll/records/{record_id} (admin only).  upd is a PayrollRecordUpdate.
UpdatePayrollRecord(p, record_id, upd) ==
    LET Set(new, old) == IF new # UNSET THEN new ELSE old
    IN  IF ~RequireAdmin(p) THEN
            /\ result' = Response("update_payroll_record", 403, "Admin privileges required")
            /\ UNCHANGED <<time_entries, payroll_records, clock_outs, pending, users>>
        ELSE IF record_id \notin DOMAIN payroll_records THEN
            /\ result' = Response("update_payroll_record", 404, "Payroll record not found")
            /\ UNCHANGED <<time_entries, payroll_records, clock_outs, pending, users>>
        ELSE
            /\ payroll_records' = [payroll_records EXCEPT ![record_id] =
                   [@ EXCEPT !.gross_pay = Set(upd.gross_pay, @),
                             !.tax_deductions = Set(upd.tax_deductions, @),
                             !.other_deductions = Set(upd.other_deductions, @),
                             !.net_pay = Set(upd.net_pay, @),
                             !.hours_worked = Set(upd.hours_worked, @),
                             !.overtime_hours = Set(upd.overtime_hours, @),
                             !.status = IF upd.status # "UNSET" THEN upd.status ELSE @,
                             !.processed_at = IF upd.status \in {"approved", "paid"}
                                              THEN UtcNow ELSE @]]
            /\ result' = Response("update_payroll_record", 200, "")
            /\ UNCHANGED <<time_entries, clock_outs, pending, users>>

\* sum(f(entry) or 0 for entry in entries), entries given by their ids
RECURSIVE SumOver(_, _, _)
SumOver(entries, ids, field) ==
    IF ids = {} THEN 0
    ELSE LET i == CHOOSE x \in ids : TRUE
             v == entries[i][field]
         IN  (IF v = NULL THEN 0 ELSE v) + SumOver(entries, ids \ {i}, field)

\* The query for the entries with the status filter left out.
ApprovedEntries_any_status(entries, employee_id, start_date, end_date) ==
    { i \in DOMAIN entries :
        /\ entries[i].employee_id = employee_id
        /\ entries[i].date >= start_date
        /\ entries[i].date <= end_date }

\* The employee's approved entries dated within [start_date, end_date].
ApprovedEntries(entries, employee_id, start_date, end_date) ==
    { i \in DOMAIN entries :
        /\ entries[i].employee_id = employee_id
        /\ entries[i].date >= start_date
        /\ entries[i].date <= end_date
        /\ entries[i].status = "approved" }

\* The hours of the employee's approved entries in the period summed and
\* handed to calculate_payroll (the loop of process_payroll_period, from the
\* query for the entries to the calculation).
EmployeePayroll(employee, entries, start_date, end_date) ==
    LET ids == ApprovedEntries(entries, employee.id, start_date, end_date)
        total_hours == SumOver(entries, ids, "total_hours")
        total_overtime == SumOver(entries, ids, "overtime_hours")
    IN  calculate_payroll(employee, total_hours, total_overtime)

\* One turn of the loop of process_payroll_period for the employee: the record
\* it adds to the session, or no record when one exists for the period.
ProcessEmployee(records, entries, employee_id, start_date, end_date) ==
    IF PeriodExists(records, employee_id, start_date, end_date) THEN {}
    ELSE LET calculation == EmployeePayroll(EmployeeTable[employee_id], entries,
                                            start_date, end_date)
         IN  { [employee_id |-> employee_id,
                employee_user_id |-> UserIdOf(employee_id),
                pay_period_start |-> start_date,
                pay_period_end |-> end_date,
                gross_pay |-> calculation.gross_pay,
                tax_deductions |-> calculation.tax_deductions,
                other_deductions |-> calculation.other_deductions,
                net_pay |-> calculation.net_pay,
                hours_worked |-> calculation.hours_worked,
                overtime_hours |-> calculation.overtime_hours,
                status |-> "pending",
                processed_at |-> NULL] }

\* db.query(Employee).filter(Employee.is_active == True).all()
ActiveEmployees == { e \in DOMAIN EmployeeTable : EmployeeTable[e].is_active }

\* The rows added to a table once the session's new records are committed:
\* ids are given in the order of the employees.
RECURSIVE Insert(_, _)
Insert(records, rows) ==
    IF rows = {} THEN records
    ELSE LET r == CHOOSE x \in rows : \A y \in rows : x.employee_id <= y.employee_id
             id == NextId(records)
         IN  Insert(records @@ (id :> ([id |-> id] @@ r)), rows \ {r})

\* The records that had no error kept when the handler fails.
Rollback_partial(records, rows) ==
    Insert(records, { r \in rows : r.employee_user_id # NULL })

\* The handler raises before db.commit(): the rows added to the session are
\* dropped with it and the table is as it was.
Rollback(records, rows) == records

\* The period check with equal dates let through.
InvalidPeriod_strict(start_date, end_date) == start_date > end_date

\* if start_date >= end_date: "Start date must be before end date"
InvalidPeriod(start_date, end_date) == start_date >= end_date

\* POST /payroll/process-period (admin only)
ProcessPayrollPeriod(p, start_date, end_date) ==
    LET added == UNION { ProcessEmployee(payroll_records, time_entries, e,
                                         start_date, end_date) : e \in ActiveEmployees }
    IN  IF ~RequireAdmin(p) THEN
            /\ result' = Response("process_payroll_period", 403, "Admin privileges required")
            /\ UNCHANGED <<time_entries, payroll_records, clock_outs, pending, users>>
        ELSE IF InvalidPeriod(start_date, end_date) THEN
            /\ result' = Response("process_payroll_period", 400,
                                  "Start date must be before end date")
            /\ UNCHANGED <<time_entries, payroll_records, clock_outs, pending, users>>
        ELSE IF IntegrityError(added) THEN
            \* employee.user is None for an employee whose user was deleted
            /\ result' = Response("process_payroll_period", 500, "Internal Server Error")
            /\ payroll_records' = Rollback(payroll_records, added)
            /\ UNCHANGED <<time_entries, clock_outs, pending, users>>
        ELSE
            /\ Cardinality(DOMAIN payroll_records) <= MaxRecords
            /\ payroll_records' = Insert(payroll_records, added)
            /\ result' = [Response("process_payroll_period", 200, "")
                              EXCEPT !.n = Cardinality(added),
                                     !.period = <<start_date, end_date>>]
            /\ UNCHANGED <<time_entries, clock_outs, pending, users>>

\* ------------------------------------------------- the time ledger's clients
\* One request to the time ledger, with the bodies and parameters drawn from
\* the given sets.
LedgerStep(bodies, out_times, out_breaks, updates) ==
    \/ \E p \in Principals, body \in bodies : ClockIn(p, body)
    \/ \E p \in Principals, i \in 1..MaxEntries, t \in out_times, b \in out_breaks :
           ClockOut(p, i, t, b)
    \/ \E p \in Principals, i \in 1..MaxEntries, upd \in updates : UpdateEntry(p, i, upd)
    \/ \E p \in Principals, i \in 1..MaxEntries : DeleteEntry(p, i)

NoUpdate == [clock_out |-> UNSET, break_duration |-> UNSET, status |-> "UNSET"]

\* Clients that exercise the life cycle of entries: any date and status, one
\* shift length.
LifecycleBodies ==
    [date : Dates, clock_in : ClockInTimes, clock_out : {NULL, 560},
     break_duration : {0}, status : EntryStatuses]
LifecycleUpdates ==
    { [NoUpdate EXCEPT !.status = s] : s \in {"UNSET"} \cup EntryStatuses }
    \cup { [NoUpdate EXCEPT !.clock_out = c] : c \in {NULL, 560} }

NextLedger == LedgerStep(LifecycleBodies, {20, 560}, {0}, LifecycleUpdates)

SpecLedger == Init /\ [][NextLedger]_vars

\* Clients that exercise the hours arithmetic: every clock-out instant and
\* break, on one day.
HoursBodies ==
    [date : {1}, clock_in : ClockInTimes, clock_out : {NULL, 560},
     break_duration : Breaks, status : {"active"}]
HoursUpdates ==
    [clock_out : {UNSET, NULL} \cup ClockOutTimes, break_duration : {UNSET} \cup Breaks,
     status : {"UNSET"}]

NextHours == LedgerStep(HoursBodies, ClockOutTimes, Breaks, HoursUpdates)

SpecHours == Init /\ [][NextHours]_vars

\* ------------------------------------------------------ the payroll's clients
\* A time entry as clock_in, clock_out and an admin's approval leave it.
WorkedEntry(id, employee_id, date, status) ==
    [id |-> id, employee_id |-> employee_id, date |-> date, clock_in |-> 20,
     clock_out |-> 560, break_duration |-> 0,
     total_hours |-> calculate_hours(20, 560, 0).total_hours,
     overtime_hours |-> calculate_hours(20, 560, 0).overtime_hours,
     status |-> status]

\* A time entry as clock_in leaves it.
OpenEntry(id, employee_id, date) ==
    [id |-> id, employee_id |-> employee_id, date |-> date, clock_in |-> 20,
     clock_out |-> NULL, break_duration |-> 0, total_hours |-> NULL,
     overtime_hours |-> 0, status |-> "active"]

\* Ledgers the payroll requests find: each is one the ledger's own requests
\* produce (clock_in, clock_out at 560 with no break, approval by the admin).
Ledgers ==
    { <<>>,
      <<WorkedEntry(1, 12, 1, "approved"), WorkedEntry(2, 12, 2, "completed")>>,
      <<WorkedEntry(1, 12, 1, "approved"), OpenEntry(2, 12, 2)>>,
      <<WorkedEntry(1, 11, 1, "approved"), WorkedEntry(2, 12, 1, "approved")>>,
      <<WorkedEntry(1, 12, 1, "approved"), WorkedEntry(2, 12, 2, "approved")>> }

InitPayroll ==
    /\ users = DOMAIN UserTable
    /\ time_entries \in Ledgers
    /\ payroll_records = <<>>
    /\ clock_outs = DOMAIN time_entries
    /\ pending = <<>>
    /\ result = Response("none", 0, "")

PayrollBodies ==
    [employee_id : {12, 99}, pay_period_start : Dates, pay_period_end : Dates,
     gross_pay : {100000}, tax_deductions : {25000}, other_deductions : {5000},
     net_pay : {70000}, hours_worked : {4000}, overtime_hours : {0},
     status : {"pending", "approved"}]

NoPayrollUpdate ==
    [gross_pay |-> UNSET, tax_deductions |-> UNSET, other_deductions |-> UNSET,
     net_pay |-> UNSET, hours_worked |-> UNSET, overtime_hours |-> UNSET,
     status |-> "UNSET"]

\* The admin sets the status, or corrects the gross pay.
PayrollUpdates ==
    { [NoPayrollUpdate EXCEPT !.status = st] : st \in PayrollStatuses }
    \cup { [NoPayrollUpdate EXCEPT !.gross_pay = 123400] }

Next ==
    \/ \E p \in Principals, data \in PayrollBodies : CreatePayrollRecord(p, data)
    \/ \E p \in Principals, r \in 1..MaxRecords, upd \in PayrollUpdates :
           UpdatePayrollRecord(p, r, upd)
    \/ \E p \in Principals, start_date \in Dates, end_date \in Dates :
           ProcessPayrollPeriod(p, start_date, end_date)
    \/ \E p \in Principals, i \in 1..MaxEntries :
           UpdateEntry(p, i, [NoUpdate EXCEPT !.status = "approved"])

Spec == InitPayroll /\ [][Next]_vars

\* ------------------------------------------------- requests running together
\* Several workers serve requests at once against the one database.  A handler
\* reads what is committed, and its own writes are seen by the others when it
\* commits; models.py declares no unique constraint on (employee_id, date,
\* status) or on (employee_id, pay_period_start, pay_period_end), so an insert
\* is never refused.
Workers == 1..MaxWorkers

Idle == [op |-> "idle"]

InitRace ==
    /\ users = DOMAIN UserTable
    /\ time_entries = <<>>
    /\ payroll_records = <<>>
    /\ clock_outs = {}
    /\ pending = [w \in Workers |-> Idle]
    /\ result = Response("none", 0, "")

Respond(w, response) ==
    /\ pending' = [pending EXCEPT ![w] = Idle]
    /\ result' = response

\* clock_in up to the query for an active entry (hitl.py 44-64)
ClockInCheck(w, p, body) ==
    LET employee == EmployeeOf(p)
        existing == \E i \in DOMAIN time_entries :
                        /\ time_entries[i].employee_id = employee.id
                        /\ time_entries[i].date = body.date
                        /\ time_entries[i].status = "active"
    IN  /\ pending[w] = Idle
        /\ UNCHANGED <<time_entries, payroll_records, clock_outs, users>>
        /\ IF employee.id = NULL THEN
               Respond(w, Response("clock_in", 404, "Employee profile not found"))
           ELSE IF existing THEN
               Respond(w, Response("clock_in", 400, "Already clocked in for today"))
           ELSE
               /\ pending' = [pending EXCEPT ![w] =
                      [op |-> "clock_in", employee_id |-> employee.id, body |-> body]]
               /\ UNCHANGED result

\* clock_in from db.add(entry) to the commit (hitl.py 66-75)
ClockInCommit(w) ==
    LET req == pending[w]
        id == NextId(time_entries)
    IN  /\ req.op = "clock_in"
        /\ Cardinality(DOMAIN time_entries) < MaxEntries
        /\ time_entries' = time_entries @@
               (id :> [id |-> id, employee_id |-> req.employee_id, date |-> req.body.date,
                       clock_in |-> req.body.clock_in, clock_out |-> req.body.clock_out,
                       break_duration |-> req.body.break_duration,
                       total_hours |-> NULL, overtime_hours |-> 0,
                       status |-> req.body.status])
        /\ clock_outs' = clock_outs \ {id}
        /\ Respond(w, Response("clock_in", 200, ""))
        /\ UNCHANGED <<payroll_records, users>>

\* create_payroll_record up to the duplicate check (processing.py 64-85)
CreateCheck(w, p, data) ==
    /\ pending[w] = Idle
    /\ UNCHANGED <<time_entries, payroll_records, clock_outs, users>>
    /\ IF ~RequireAdmin(p) THEN
           Respond(w, Response("create_payroll_record", 403, "Admin privileges required"))
       ELSE IF data.employee_id \notin DOMAIN EmployeeTable THEN
           Respond(w, Response("create_payroll_record", 404, "Employee not found"))
       ELSE IF PeriodExists(payroll_records, data.employee_id,
                            data.pay_period_start, data.pay_period_end) THEN
           Respond(w, Response("create_payroll_record", 400,
                               "Payroll record already exists for this period"))
       ELSE
           /\ pending' = [pending EXCEPT ![w] =
                  [op |-> "create_payroll_record",
                   rows |-> { [data EXCEPT !.employee_id = data.employee_id]
                              @@ [employee_user_id |-> UserIdOf(data.employee_id),
                                  processed_at |-> NULL] }]]
           /\ UNCHANGED result

\* create_payroll_record from db.add(payroll_record) to the commit
\* (processing.py 87-96)
CreateCommit(w) ==
    LET req == pending[w]
    IN  /\ req.op = "create_payroll_record"
        /\ UNCHANGED <<time_entries, clock_outs, users>>
        /\ IF IntegrityError(req.rows) THEN
               /\ Respond(w, Response("create_payroll_record", 500, "Internal Server Error"))
               /\ UNCHANGED payroll_records
           ELSE
               /\ payroll_records' = Insert(payroll_records, req.rows)
               /\ Respond(w, Response("create_payroll_record", 200, ""))

\* process_payroll_period up to the query for the active employees
\* (processing.py 223-231)
ProcessBegin(w, p, start_date, end_date) ==
    /\ pending[w] = Idle
    /\ UNCHANGED <<time_entries, payroll_records, clock_outs, users>>
    /\ IF ~RequireAdmin(p) THEN
           Respond(w, Response("process_payroll_period", 403, "Admin privileges required"))
       ELSE IF InvalidPeriod(start_date, end_date) THEN
           Respond(w, Response("process_payroll_period", 400,
                               "Start date must be before end date"))
       ELSE
           /\ pending' = [pending EXCEPT ![w] =
                  [op |-> "process_payroll_period", start_date |-> start_date,
                   end_date |-> end_date, employees |-> ActiveEmployees, rows |-> {}]]
           /\ UNCHANGED result

\* One turn of the loop (processing.py 233-276): the next employee, in the
\* order of the ids.
ProcessTurn(w) ==
    LET req == pending[w]
        e == CHOOSE x \in req.employees : \A y \in req.employees : x <= y
    IN  /\ req.op = "process_payroll_period"
        /\ req.employees # {}
        /\ pending' = [pending EXCEPT ![w] =
               [req EXCEPT !.employees = @ \ {e},
                           !.rows = @ \cup ProcessEmployee(payroll_records, time_entries, e,
                                                           req.start_date, req.end_date)]]
        /\ UNCHANGED <<time_entries, payroll_records, clock_outs, result, users>>

\* db.commit() and the response (processing.py 278-284)
ProcessCommit(w) ==
    LET req == pending[w]
    IN  /\ req.op = "process_payroll_period"
        /\ req.employees = {}
        /\ Cardinality(DOMAIN payroll_records) <= MaxRecords
        /\ UNCHANGED <<time_entries, clock_outs, users>>
        /\ IF IntegrityError(req.rows) THEN
               /\ Respond(w, Response("process_payroll_period", 500, "Internal Server Error"))
               /\ UNCHANGED payroll_records
           ELSE
               /\ payroll_records' = Insert(payroll_records, req.rows)
               /\ Respond(w, [Response("process_payroll_period", 200, "")
                                  EXCEPT !.n = Cardinality(req.rows),
                                         !.period = <<req.start_date, req.end_date>>])

RaceBodies ==
    [date : {1}, clock_in : ClockInTimes, clock_out : {NULL},
     break_duration : {0}, status : {"active"}]

\* One admin client posts records, through worker 1.
RacePayrollBodies ==
    [employee_id : {12}, pay_period_start : {1}, pay_period_end : {2},
     gross_pay : {100000}, tax_deductions : {25000}, other_deductions : {5000},
     net_pay : {70000}, hours_worked : {4000}, overtime_hours : {0},
     status : {"pending"}]

NextRace ==
    \/ \E w \in Workers, p \in Principals, body \in RaceBodies : ClockInCheck(w, p, body)
    \/ \E w \in Workers : ClockInCommit(w)
    \/ \E p \in Principals, data \in RacePayrollBodies : CreateCheck(1, p, data)
    \/ CreateCommit(1)
    \/ \E w \in Workers, p \in Principals, start_date \in Dates, end_date \in Dates :
           ProcessBegin(w, p, start_date, end_date)
    \/ \E w \in Workers : ProcessTurn(w)
    \/ \E w \in Workers : ProcessCommit(w)

SpecRace == InitRace /\ [][NextRace]_vars

\* ======================================================================
\* Properties of the time ledger
\* ======================================================================

\* The principal's employee profile owns the entry.
Owns(p, i) == i \in DOMAIN time_entries /\ EmployeeOf(p).id = time_entries[i].employee_id

\* The hours formula of the specification, in hundredths of an hour:
\* round((minutes - break) / 60, 2) and max(0, total - 8.0).
SpecTotalHours(clock_in, clock_out, break_minutes) ==
    RoundDiv(5 * ((clock_out - clock_in) - break_minutes), 3)
SpecOvertimeHours(total_hours) == Max(0, total_hours - 800)

\* C1: at most one TimeEntry with status=active for any (employee, date).
C1_OneActivePerDay ==
    \A i, j \in DOMAIN time_entries :
        ( /\ i # j
          /\ time_entries[i].employee_id = time_entries[j].employee_id
          /\ time_entries[i].date = time_entries[j].date
          /\ time_entries[i].status = "active" )
        => time_entries[j].status # "active"

NonAdmins == {p \in Principals : ~p.is_admin}
Approvals == {upd \in LifecycleUpdates : upd.status = "approved"}

C8_ClockOutUsesCallBreak ==
    [][ result' = Response("clock_out", 200, "") =>
        \A p \in Principals, i \in 1..MaxEntries, t \in ClockOutTimes, b \in Breaks :
          (Owns(p, i) /\ ClockOut(p, i, t, b))
          => ( /\ time_entries'[i].total_hours =
                      SpecTotalHours(time_entries[i].clock_in, t, b)
               /\ time_entries'[i].overtime_hours =
                      SpecOvertimeHours(time_entries'[i].total_hours)
               /\ time_entries'[i].status = "completed" ) ]_vars

\* C8 amended: a successful clock-out stores the hours computed with the break
\* value of the call when that is not zero and with the entry's stored
\* break_duration when it is zero, stores that break and the clock-out
\* instant, and sets status completed.
C8_ClockOutHours ==
    [][ result' = Response("clock_out", 200, "") =>
        \A p \in Principals, i \in 1..MaxEntries, t \in ClockOutTimes, b \in Breaks :
          (Owns(p, i) /\ ClockOut(p, i, t, b))
          => LET used == IF b # 0 THEN b ELSE time_entries[i].break_duration
             IN  /\ time_entries'[i].clock_out = t
                 /\ time_entries'[i].break_duration = used
                 /\ time_entries'[i].total_hours =
                        SpecTotalHours(time_entries[i].clock_in, t, used)
                 /\ time_entries'[i].overtime_hours =
                        SpecOvertimeHours(time_entries'[i].total_hours)
                 /\ time_entries'[i].status = "completed" ]_vars

\* A clock-out has stored a shift with overtime and a break taken off.
C8_Witness ==
    /\ result = Response("clock_out", 200, "")
    /\ \E i \in DOMAIN time_entries :
           /\ time_entries[i].status = "completed"
           /\ time_entries[i].break_duration = 30
           /\ time_entries[i].total_hours = 850
           /\ time_entries[i].overtime_hours = 50

\* C9 as stated: a clock-out at or before the clock-in, on an entry of the
\* caller, is answered with the invalid-range error and changes nothing.
C9_InvalidRangeAlways ==
    [][ result'.op = "clock_out" =>
        \A p \in Principals, i \in 1..MaxEntries, t \in ClockOutTimes, b \in Breaks :
          (Owns(p, i) /\ t <= time_entries[i].clock_in /\ ClockOut(p, i, t, b))
          => ( /\ result' = Response("clock_out", 400,
                                     "Clock out time must be after clock in time")
               /\ time_entries' = time_entries ) ]_vars

\* C9 amended: a clock-out at or before the clock-in, on an entry of the caller
\* that has no clock_out yet, is answered with the invalid-range error for
\* every break value; on any entry of the caller it is refused with status
\* 400 and changes nothing.
C9_InvalidRangeOnOpenEntry ==
    [][ result'.op = "clock_out" =>
        \A p \in Principals, i \in 1..MaxEntries, t \in ClockOutTimes, b \in Breaks :
          (Owns(p, i) /\ t <= time_entries[i].clock_in /\ ClockOut(p, i, t, b))
          => ( /\ result'.code = 400
               /\ time_entries[i].clock_out = NULL =>
                      result' = Response("clock_out", 400,
                                         "Clock out time must be after clock in time")
               /\ time_entries' = time_entries ) ]_vars

\* A clock-out was refused for its range while an open entry exists.
C9_Witness ==
    /\ result = Response("clock_out", 400, "Clock out time must be after clock in time")
    /\ \E i \in DOMAIN time_entries :
           time_entries[i].clock_out = NULL /\ time_entries[i].break_duration = 30

\* C10 as stated: a clock-out on an entry of the caller that has a clock_out is
\* answered "Already clocked out" and changes nothing, and no entry is closed
\* by clock_out a second time.
C10_ClosedAtMostOnce ==
    [][ result'.op = "clock_out" =>
        \A p \in Principals, i \in 1..MaxEntries, t \in {20, 560} :
          (Owns(p, i) /\ ClockOut(p, i, t, 0))
          => ( /\ time_entries[i].clock_out # NULL =>
                      ( /\ result' = Response("clock_out", 400, "Already clocked out")
                        /\ time_entries' = time_entries )
               /\ result'.code = 200 => i \notin clock_outs ) ]_vars

\* C10 amended: a clock-out on an entry of the caller that has a clock_out is
\* answered "Already clocked out" and changes nothing; an entry is closed by
\* clock_out again only after its clock_out has been cleared.
C10_AlreadyClosedRefused ==
    [][ result'.op = "clock_out" =>
        \A p \in Principals, i \in 1..MaxEntries, t \in {20, 560} :
          (Owns(p, i) /\ ClockOut(p, i, t, 0))
          => ( /\ time_entries[i].clock_out # NULL =>
                      ( /\ result' = Response("clock_out", 400, "Already clocked out")
                        /\ time_entries' = time_entries )
               /\ result'.code = 200 => time_entries[i].clock_out = NULL ) ]_vars

\* A clock-out was refused on an entry a clock_out call had closed.
C10_Witness ==
    /\ result = Response("clock_out", 400, "Already clocked out")
    /\ \E i \in clock_outs : time_entries[i].clock_out # NULL

\* ======================================================================
\* Properties of the payroll records
\* ======================================================================

\* C2: there is at most one PayrollRecord for any (employee, pay_period_start,
\* pay_period_end).
C2_OneRecordPerPeriod ==
    \A r1, r2 \in DOMAIN payroll_records :
        ( /\ payroll_records[r1].employee_id = payroll_records[r2].employee_id
          /\ payroll_records[r1].pay_period_start = payroll_records[r2].pay_period_start
          /\ payroll_records[r1].pay_period_end = payroll_records[r2].pay_period_end )
        => r1 = r2

\* An admin's record for a period was refused as a duplicate of the record the
\* period processor had made for the employee.
C2_Witness ==
    /\ result = Response("create_payroll_record", 400,
                         "Payroll record already exists for this period")
    /\ \E r \in DOMAIN payroll_records :
           /\ payroll_records[r].employee_id = 12
           /\ payroll_records[r].hours_worked = 1800
           /\ payroll_records[r].status = "paid"

\* C3: a process_payroll_period call that follows a successful one for the
\* same period, with no request in between, succeeds, reports 0 processed
\* records and leaves the table of payroll records as it was.
C3_ProcessPeriodIdempotent ==
    [][ ( /\ result.op = "process_payroll_period"
          /\ result.code = 200
          /\ result'.op = "process_payroll_period" )
        => \A p \in Principals :
             ( /\ RequireAdmin(p)
               /\ ProcessPayrollPeriod(p, result.period[1], result.period[2]) )
             => ( /\ result'.code = 200
                  /\ result'.n = 0
                  /\ payroll_records' = payroll_records ) ]_vars

\* The period was processed again: nothing was processed, and the records of
\* the two active employees from the first call are there.
C3_Witness ==
    /\ result.op = "process_payroll_period"
    /\ result.code = 200
    /\ result.n = 0
    /\ \A e \in ActiveEmployees :
           \E r \in DOMAIN payroll_records :
               /\ payroll_records[r].employee_id = e
               /\ payroll_records[r].pay_period_start = result.period[1]
               /\ payroll_records[r].pay_period_end = result.period[2]
               /\ payroll_records[r].hours_worked = 900
               /\ payroll_records[r].status = "pending"

\* ======================================================================
\* Properties of requests running together
\* ======================================================================

\* C4: with process_payroll_period and create_payroll_record requests running
\* together, no employee ever has two PayrollRecords for one period.
C4_NoDuplicateRecordUnderRace ==
    \A e \in DOMAIN EmployeeTable, start_date \in Dates, end_date \in Dates :
        Cardinality({ r \in DOMAIN payroll_records :
                        /\ payroll_records[r].employee_id = e
                        /\ payroll_records[r].pay_period_start = start_date
                        /\ payroll_records[r].pay_period_end = end_date }) <= 1

CalcEmployees ==
    { [id |-> 11, user_id |-> 1, salary |-> 52000, hourly_rate |-> NULL,
       employment_type |-> "full_time", is_active |-> TRUE],
      [id |-> 12, user_id |-> 2, salary |-> 75000, hourly_rate |-> 3606,
       employment_type |-> "full_time", is_active |-> TRUE],
      [id |-> 13, user_id |-> 3, salary |-> 26000, hourly_rate |-> 2000,
       employment_type |-> "contract", is_active |-> FALSE],
      [id |-> 14, user_id |-> 4, salary |-> 41600, hourly_rate |-> 2000,
       employment_type |-> "hourly", is_active |-> TRUE],
      [id |-> 15, user_id |-> 4, salary |-> 60000, hourly_rate |-> 3333,
       employment_type |-> "hourly", is_active |-> TRUE],
      [id |-> 16, user_id |-> 4, salary |-> 31200, hourly_rate |-> NULL,
       employment_type |-> "hourly", is_active |-> TRUE] }

\* hours worked and overtime override, in hundredths of an hour
CalcHours == {0, 1825, 2000, 3999, 4000, 4500, 6000}
CalcOvertimes == {0, 250, 500}

\* One application of calculate_payroll: the response holds the arguments and
\* the dict returned.
Calculate(employee, hours_worked, overtime_hours) ==
    /\ result' = [Response("calculate_payroll", 200, "") EXCEPT !.body =
           { [employee |-> employee, hours_worked |-> hours_worked,
              overtime_hours |-> overtime_hours,
              calculation |-> calculate_payroll(employee, hours_worked, overtime_hours)] }]
    /\ UNCHANGED <<users, time_entries, payroll_records, clock_outs, pending>>

NextCalc ==
    \E employee \in CalcEmployees, hours_worked \in CalcHours,
       overtime_hours \in CalcOvertimes :
        Calculate(employee, hours_worked, overtime_hours)

SpecCalc == Init /\ [][NextCalc]_vars

\* The applications of calculate_payroll in the response.
Calculations == IF result.op = "calculate_payroll" THEN result.body ELSE {}

\* C12: the rounded outputs of calculate_payroll satisfy
\* net_pay = gross_pay - tax_deductions - other_deductions to the cent.
C12_NetIsGrossLessDeductions ==
    \A c \in Calculations :
        c.calculation.net_pay =
            c.calculation.gross_pay - c.calculation.tax_deductions
                                    - c.calculation.other_deductions

\* The reference rule for the pay, in cents before rounding, as the fraction
\* num/den: hours in hundredths, rate in cents an hour, salary in dollars a
\* year.  An hourly employee "with a rate" has a rate that is neither NULL nor
\* zero.
RefOvertime(hours, override) == IF override = 0 THEN Max(0, hours - 4000) ELSE override
RefRegular(hours) == Min(hours, 4000)
RefHourly(employee) ==
    employee.employment_type = "hourly" /\ employee.hourly_rate \notin {NULL, 0}
\* regular*rate + overtime*rate*1.5, in cents, times 200
RefHourlyGross200(employee, hours, override) ==
    employee.hourly_rate * (2 * RefRegular(hours) + 3 * RefOvertime(hours, override))
\* salary/52 + overtime*(salary/52/40)*1.5, in cents, times 4160
RefSalariedGross4160(employee, hours, override) ==
    8000 * employee.salary + 3 * RefOvertime(hours, override) * employee.salary

\* C13: gross_pay is the reference rule's amount rounded to the cent,
\* tax_deductions 25% and other_deductions 5% of the unrounded gross rounded to
\* the cent, for hourly employees with a rate and for all others; rate 20 and
\* 45 hours give 950.00 / 237.50 / 47.50 / 665.00, salary 52000 and 40 hours
\* give 1000.00 / 250.00 / 50.00 / 700.00.
C13_GrossFollowsRule ==
    \A c \in Calculations :
        LET e == c.employee
            h == c.hours_worked
            o == c.overtime_hours
            num == IF RefHourly(e) THEN RefHourlyGross200(e, h, o)
                   ELSE RefSalariedGross4160(e, h, o)
            den == IF RefHourly(e) THEN 200 ELSE 4160
        IN  /\ c.calculation.gross_pay = RoundDiv(num, den)
            /\ c.calculation.tax_deductions = RoundMulDiv(25, num, 100 * den)
            /\ c.calculation.other_deductions = RoundMulDiv(5, num, 100 * den)
            /\ c.calculation.overtime_hours = RefOvertime(h, o)
            /\ (RefHourly(e) /\ e.hourly_rate = 2000 /\ h = 4500 /\ o = 0) =>
                   /\ c.calculation.gross_pay = 95000
                   /\ c.calculation.tax_deductions = 23750
                   /\ c.calculation.other_deductions = 4750
                   /\ c.calculation.net_pay = 66500
            /\ (~RefHourly(e) /\ e.salary = 52000 /\ h = 4000 /\ o = 0) =>
                   /\ c.calculation.gross_pay = 100000
                   /\ c.calculation.tax_deductions = 25000
                   /\ c.calculation.other_deductions = 5000
                   /\ c.calculation.net_pay = 70000

\* The calculator was applied to an hourly employee at 20.00 an hour with 45
\* hours and no override, and paid 950.00.
C13_Witness ==
    \E c \in Calculations :
        /\ c.employee.employment_type = "hourly"
        /\ c.employee.hourly_rate = 2000
        /\ c.hours_worked = 4500
        /\ c.overtime_hours = 0
        /\ c.calculation.gross_pay = 95000
        /\ c.calculation.overtime_hours = 500

\* ======================================================================
\* Properties of the period processor
\* ======================================================================

\* C14: process_payroll_period with start_date >= end_date, called by an
\* admin, is answered with the invalid-range error "Start date must be before
\* end date"; whoever calls it, it is refused and no payroll record is added
\* or changed.
C14_InvalidPeriodRefused ==
    [][ result'.op = "process_payroll_period" =>
        \A p \in Principals, start_date \in Dates, end_date \in Dates :
          (start_date >= end_date /\ ProcessPayrollPeriod(p, start_date, end_date))
          => ( /\ result'.code \in {400, 403}
               /\ RequireAdmin(p) =>
                      result' = Response("process_payroll_period", 400,
                                         "Start date must be before end date")
               /\ payroll_records' = payroll_records
               /\ time_entries' = time_entries ) ]_vars

\* A period that does not start before it ends was refused while approved
\* entries and an earlier record were there to be processed.
C14_Witness ==
    /\ result = Response("process_payroll_period", 400,
                         "Start date must be before end date")
    /\ payroll_records # <<>>
    /\ \E i \in DOMAIN time_entries : time_entries[i].status = "approved"

\* The sum of total_hours (NULL counts as 0) over the entries numbered up to n
\* of the employee that are approved and dated in [start_date, end_date].
RECURSIVE ApprovedHoursUpTo(_, _, _, _)
ApprovedHoursUpTo(n, employee_id, start_date, end_date) ==
    IF n = 0 THEN 0
    ELSE ApprovedHoursUpTo(n - 1, employee_id, start_date, end_date)
         + ( IF /\ n \in DOMAIN time_entries
                /\ time_entries[n].employee_id = employee_id
                /\ time_entries[n].status = "approved"
                /\ start_date <= time_entries[n].date
                /\ time_entries[n].date <= end_date
                /\ time_entries[n].total_hours # NULL
             THEN time_entries[n].total_hours ELSE 0 )

\* The records of the employee for the period.
RecordsFor(records, employee_id, start_date, end_date) ==
    { r \in DOMAIN records :
        /\ records[r].employee_id = employee_id
        /\ records[r].pay_period_start = start_date
        /\ records[r].pay_period_end = end_date }

\* C15: a successful process_payroll_period(start_date, end_date) adds exactly
\* one record, with status pending, for each active employee that had none
\* for the period and nothing else; the record's hours_worked is the sum of
\* total_hours over that employee's approved entries dated within the period.
C15_ProcessPeriodCreates ==
    [][ (result'.op = "process_payroll_period" /\ result'.code = 200) =>
        \A p \in Principals, start_date \in Dates, end_date \in Dates :
          ProcessPayrollPeriod(p, start_date, end_date)
          => LET new == DOMAIN payroll_records' \ DOMAIN payroll_records
             IN  /\ \A r \in DOMAIN payroll_records :
                        r \in DOMAIN payroll_records' /\ payroll_records'[r] = payroll_records[r]
                 /\ \A r \in new :
                        /\ payroll_records'[r].pay_period_start = start_date
                        /\ payroll_records'[r].pay_period_end = end_date
                        /\ payroll_records'[r].status = "pending"
                        /\ EmployeeTable[payroll_records'[r].employee_id].is_active
                        /\ payroll_records'[r].hours_worked =
                               ApprovedHoursUpTo(MaxEntries, payroll_records'[r].employee_id,
                                                 start_date, end_date)
                 /\ \A e \in DOMAIN EmployeeTable :
                        Cardinality(new \cap RecordsFor(payroll_records', e,
                                                        start_date, end_date)) =
                            IF /\ EmployeeTable[e].is_active
                               /\ RecordsFor(payroll_records, e, start_date, end_date) = {}
                            THEN 1 ELSE 0 ]_vars

\* The period was processed for both active employees: the record of the
\* employee with one approved and one completed entry in the period holds the
\* hours of the approved one only, the other employee's record no hours.
C15_Witness ==
    /\ result.op = "process_payroll_period"
    /\ result.code = 200
    /\ result.n = 2
    /\ result.period = <<1, 2>>
    /\ \E i, j \in DOMAIN time_entries :
           /\ time_entries[i].employee_id = 12
           /\ time_entries[j].employee_id = 12
           /\ time_entries[i].status = "approved"
           /\ time_entries[i].total_hours = 900
           /\ time_entries[j].status = "completed"
           /\ time_entries[j].total_hours = 900
    /\ \E r \in DOMAIN payroll_records :
           /\ payroll_records[r].employee_id = 12
           /\ payroll_records[r].hours_worked = 900
           /\ payroll_records[r].status = "pending"
    /\ \E r \in DOMAIN payroll_records :
           /\ payroll_records[r].employee_id = 11
           /\ payroll_records[r].hours_worked = 0
    /\ \A r \in DOMAIN payroll_records : payroll_records[r].employee_id # 13

\* C19: every payroll record, made by create_payroll_record or by
\* process_payroll_period, has pay_period_start before pay_period_end.
C19_PeriodStartsBeforeEnd ==
    \A r \in DOMAIN payroll_records :
        payroll_records[r].pay_period_start < payroll_records[r].pay_period_end

\* C20: after any request every payroll record with status approved or paid
\* has processed_at set, and processed_at goes from unset to set only in a
\* step that leaves the record approved or paid (a record never approved or
\* paid has it unset).
C20_ProcessedAtFollowsStatus ==
    [][ \A r \in DOMAIN payroll_records' :
            /\ payroll_records'[r].status \in {"approved", "paid"}
                   => payroll_records'[r].processed_at # NULL
            /\ ( /\ payroll_records'[r].processed_at # NULL
                 /\ (r \in DOMAIN payroll_records
                        => payroll_records[r].processed_at = NULL) )
                   => payroll_records'[r].status \in {"approved", "paid"} ]_vars

\* ======================================================================
\* Users and reads
\* ======================================================================

\* "if user.id == current_user.id" never true.
DeletingSelf_never(p, user_id) == FALSE

\* Don't allow deleting yourself: user.id == current_user.id
DeletingSelf(p, user_id) == user_id = p.id

\* DELETE /users/{user_id} (admin only).  db.delete(user) sets the
\* employee_user_id of the user's payroll records to NULL, which the column
\* (nullable=False) refuses: the commit fails and the user stays.
DeleteUser(p, user_id) ==
    IF ~RequireAdmin(p) THEN
        /\ result' = Response("delete_user", 403, "Admin privileges required")
        /\ UNCHANGED <<users, time_entries, payroll_records, clock_outs, pending>>
    ELSE IF user_id \notin users THEN
        /\ result' = Response("delete_user", 404, "User not found")
        /\ UNCHANGED <<users, time_entries, payroll_records, clock_outs, pending>>
    ELSE IF DeletingSelf(p, user_id) THEN
        /\ result' = Response("delete_user", 400, "Cannot delete yourself")
        /\ UNCHANGED <<users, time_entries, payroll_records, clock_outs, pending>>
    ELSE IF \E r \in DOMAIN payroll_records :
                payroll_records[r].employee_user_id = user_id THEN
        /\ result' = Response("delete_user", 500, "Internal Server Error")
        /\ UNCHANGED <<users, time_entries, payroll_records, clock_outs, pending>>
    ELSE
        /\ users' = users \ {user_id}
        /\ result' = Response("delete_user", 200, "User deleted successfully")
        /\ UNCHANGED <<time_entries, payroll_records, clock_outs, pending>>

\* The check on the record's owner dropped.
NotOwnRecord_never(p, record) == FALSE

\* not current_user.is_admin and record.employee_user_id != current_user.id
NotOwnRecord(p, record) == ~p.is_admin /\ record.employee_user_id # p.id

\* GET /payroll/records/{record_id}
GetPayrollRecord(p, record_id) ==
    /\ UNCHANGED <<users, time_entries, payroll_records, clock_outs, pending>>
    /\ IF record_id \notin DOMAIN payroll_records THEN
           result' = Response("get_payroll_record", 404, "Payroll record not found")
       ELSE IF NotOwnRecord(p, payroll_records[record_id]) THEN
           result' = Response("get_payroll_record", 403, "Not authorized to view this record")
       ELSE
           result' = [Response("get_payroll_record", 200, "")
                          EXCEPT !.body = {payroll_records[record_id]}]

\* GET /payroll/records, with skip and limit left at 0 and 100; employee_id is
\* NULL and status_filter "UNSET" when the query leaves them out.
GetPayrollRecords(p, employee_id, status_filter) ==
    LET visible == IF ~p.is_admin
                   THEN { r \in DOMAIN payroll_records :
                            payroll_records[r].employee_user_id = p.id }
                   ELSE IF employee_id # NULL /\ employee_id # 0
                   THEN { r \in DOMAIN payroll_records :
                            payroll_records[r].employee_id = employee_id }
                   ELSE DOMAIN payroll_records
        records == { r \in visible : status_filter = "UNSET"
                                     \/ payroll_records[r].status = status_filter }
    IN  /\ result' = [Response("get_payroll_records", 200, "")
                          EXCEPT !.body = { payroll_records[r] : r \in records }]
        /\ UNCHANGED <<users, time_entries, payroll_records, clock_outs, pending>>

\* GET /time/entries/{entry_id}
GetTimeEntry(p, entry_id) ==
    LET employee == EmployeeOf(p)
    IN  /\ UNCHANGED <<users, time_entries, payroll_records, clock_outs, pending>>
        /\ IF entry_id \notin DOMAIN time_entries THEN
               result' = Response("get_time_entry", 404, "Time entry not found")
           ELSE IF /\ ~p.is_admin
                   /\ \/ employee.id = NULL
                      \/ time_entries[entry_id].employee_id # employee.id THEN
               result' = Response("get_time_entry", 403, "Not authorized to view this entry")
           ELSE
               result' = [Response("get_time_entry", 200, "")
                              EXCEPT !.body = {time_entries[entry_id]}]

\* The principals whose user row is there (a token is checked against it).
LivePrincipals == { p \in Principals : p.id \in users }

\* The admin's records for the one period, and the admin's approval.
AccessBodies ==
    [employee_id : {11, 12}, pay_period_start : {1}, pay_period_end : {2},
     gross_pay : {100000}, tax_deductions : {25000}, other_deductions : {5000},
     net_pay : {70000}, hours_worked : {4000}, overtime_hours : {0},
     status : {"pending"}]
AccessUpdates == { [NoPayrollUpdate EXCEPT !.status = "approved"] }
AccessEntryUpdates == { [NoUpdate EXCEPT !.status = "completed"] }

NextAccess ==
    \/ \E p \in LivePrincipals, data \in AccessBodies : CreatePayrollRecord(p, data)
    \/ \E p \in LivePrincipals, r \in 1..MaxRecords, upd \in AccessUpdates :
           UpdatePayrollRecord(p, r, upd)
    \/ \E p \in LivePrincipals : ProcessPayrollPeriod(p, 1, 2)
    \/ \E p \in LivePrincipals, i \in 1..MaxEntries : DeleteEntry(p, i)
    \/ \E p \in LivePrincipals, u \in DOMAIN UserTable : DeleteUser(p, u)
    \/ \E p \in LivePrincipals, r \in 1..MaxRecords : GetPayrollRecord(p, r)
    \/ \E p \in LivePrincipals, e \in {NULL, 12}, st \in {"UNSET", "pending"} :
           GetPayrollRecords(p, e, st)
    \/ \E p \in LivePrincipals, i \in 1..MaxEntries : GetTimeEntry(p, i)
    \/ \E p \in LivePrincipals, i \in 1..MaxEntries, upd \in AccessEntryUpdates :
           UpdateEntry(p, i, upd)

SpecAccess == InitPayroll /\ [][NextAccess]_vars

\* ======================================================================
\* Properties of access
\* ======================================================================

LiveNonAdmins == { p \in LivePrincipals : ~p.is_admin }

\* The four tables and the history.
Tables == <<users, time_entries, payroll_records, clock_outs>>

\* C16: for a non-admin principal, get_payroll_record on a record of another
\* employee, and get_time_entry and update_time_entry on an entry of another
\* employee, are answered 403 and change nothing, and get_payroll_records
\* returns only records whose employee_user_id is the principal's id.
C16_NonAdminSeesOnlyOwn ==
    [][ result'.op \in {"get_payroll_record", "get_payroll_records",
                        "get_time_entry", "update_time_entry"} =>
        \A p \in LiveNonAdmins :
          /\ \A r \in DOMAIN payroll_records :
                 ( /\ payroll_records[r].employee_id # EmployeeOf(p).id
                   /\ GetPayrollRecord(p, r) )
                 => ( /\ result' = Response("get_payroll_record", 403,
                                            "Not authorized to view this record")
                      /\ Tables' = Tables )
          /\ \A i \in DOMAIN time_entries :
                 (~Owns(p, i) /\ GetTimeEntry(p, i))
                 => ( /\ result' = Response("get_time_entry", 403,
                                            "Not authorized to view this entry")
                      /\ Tables' = Tables )
          /\ \A i \in DOMAIN time_entries, upd \in AccessEntryUpdates :
                 (~Owns(p, i) /\ UpdateEntry(p, i, upd))
                 => ( /\ result' = Response("update_time_entry", 403,
                                            "Not authorized to update this entry")
                      /\ Tables' = Tables )
          /\ \A e \in {NULL, 12}, st \in {"UNSET", "pending"} :
                 GetPayrollRecords(p, e, st)
                 => \A row \in result'.body :
                        /\ row.employee_user_id = p.id
                        /\ row.employee_id = EmployeeOf(p).id ]_vars

\* A non-admin was refused the record of another employee while holding a
\* record of their own.
C16_Witness ==
    /\ result = Response("get_payroll_record", 403, "Not authorized to view this record")
    /\ \E r1, r2 \in DOMAIN payroll_records :
           /\ payroll_records[r1].employee_user_id = 1
           /\ payroll_records[r2].employee_user_id = 2
    /\ 2 \in users

\* C17: create_payroll_record, update_payroll_record, process_payroll_period,
\* delete_time_entry and delete_user, called by a principal without admin
\* rights, are answered 403 and leave the users, the time entries and the
\* payroll records as they were.
C17_AdminOnlyRefused ==
    [][ result'.op \in {"create_payroll_record", "update_payroll_record",
                        "process_payroll_period", "delete_time_entry", "delete_user"} =>
        \A p \in LiveNonAdmins :
          ( \/ \E data \in AccessBodies : CreatePayrollRecord(p, data)
            \/ \E r \in 1..MaxRecords, upd \in AccessUpdates : UpdatePayrollRecord(p, r, upd)
            \/ ProcessPayrollPeriod(p, 1, 2)
            \/ \E i \in 1..MaxEntries : DeleteEntry(p, i)
            \/ \E u \in DOMAIN UserTable : DeleteUser(p, u) )
          => ( /\ result'.code = 403
               /\ result'.detail = "Admin privileges required"
               /\ Tables' = Tables ) ]_vars

\* A non-admin asked to delete a user and was refused, with entries and
\* records in the tables.
C17_Witness ==
    /\ result = Response("delete_user", 403, "Admin privileges required")
    /\ time_entries # <<>>
    /\ payroll_records # <<>>
    /\ users = DOMAIN UserTable

PayrunBodies ==
    [date : {1}, clock_in : ClockInTimes, clock_out : {NULL},
     break_duration : {0}, status : {"active"}]
PayrunEntryUpdates ==
    { [NoUpdate EXCEPT !.status = "approved"],
      [NoUpdate EXCEPT !.break_duration = 30] }
PayrunPeriods == { <<1, 2>>, <<2, 2>> }
PayrunRecordBodies == { data \in AccessBodies : data.employee_id = 12 }

NextPayrun ==
    \/ \E p \in LivePrincipals, body \in PayrunBodies : ClockIn(p, body)
    \/ \E p \in LivePrincipals, i \in 1..MaxEntries, t \in {20, 30}, b \in Breaks :
           ClockOut(p, i, t, b)
    \/ \E p \in LivePrincipals, i \in 1..MaxEntries, upd \in PayrunEntryUpdates :
           UpdateEntry(p, i, upd)
    \/ \E p \in LivePrincipals, data \in PayrunRecordBodies : CreatePayrollRecord(p, data)
    \/ \E p \in LivePrincipals, r \in 1..MaxRecords, upd \in AccessUpdates :
           UpdatePayrollRecord(p, r, upd)
    \/ \E p \in LivePrincipals, period \in PayrunPeriods :
           ProcessPayrollPeriod(p, period[1], period[2])
    \/ \E p \in LivePrincipals : DeleteUser(p, 2)

SpecPayrun == Init /\ [][NextPayrun]_vars

\* The handlers the no-partial-failure rule is about.
WritingOps == {"clock_in", "clock_out", "update_time_entry", "create_payroll_record",
               "update_payroll_record", "process_payroll_period"}

\* The active employees without a record for the period.
Unprocessed(start_date, end_date) ==
    { e \in ActiveEmployees :
        RecordsFor(payroll_records, e, start_date, end_date) = {} }

\* C21: a clock_in, clock_out, update_time_entry, create_payroll_record,
\* update_payroll_record or process_payroll_period that answers with an error
\* leaves the time entries and the payroll records exactly as they were, and
\* process_payroll_period adds the records of all the employees it has to
\* process or of none.
C21_NoPartialFailure ==
    [][ result'.op \in WritingOps =>
        /\ result'.code # 200 =>
               (time_entries' = time_entries /\ payroll_records' = payroll_records)
        /\ \A p \in LivePrincipals, period \in PayrunPeriods :
               ProcessPayrollPeriod(p, period[1], period[2])
               => LET new == DOMAIN payroll_records' \ DOMAIN payroll_records
                  IN  /\ Cardinality(new) \in
                             {0, Cardinality(Unprocessed(period[1], period[2]))}
                      /\ result'.code # 200 => new = {} ]_vars

\* The period was processed while one of two employees without a record had
\* lost their user: the request failed and the other employee got no record.
C21_Witness ==
    /\ result = Response("process_payroll_period", 500, "Internal Server Error")
    /\ 2 \notin users
    /\ Unprocessed(1, 2) = {11, 12}
    /\ time_entries # <<>>

\* Minutes between the clock-in and a clock-out instant.
Elapsed(i, clock_out) == clock_out - time_entries[i].clock_in

\* C22: a clock_out, or an update_time_entry that sets break_duration, with
\* the clock-out after the clock-in and a break longer than the elapsed
\* minutes succeeds and stores a negative total_hours with overtime_hours 0,
\* and a process_payroll_period that follows adds the negative total_hours of
\* approved entries into hours_worked.
C22_NegativeHoursStored ==
    [][ /\ result'.op = "clock_out" =>
            \A p \in LivePrincipals, i \in DOMAIN time_entries, t \in {20, 30}, b \in Breaks :
               LET used == IF b # 0 THEN b ELSE time_entries[i].break_duration
               IN  ( /\ Owns(p, i)
                     /\ time_entries[i].clock_out = NULL
                     /\ t > time_entries[i].clock_in
                     /\ used > Elapsed(i, t)
                     /\ ClockOut(p, i, t, b) )
                   => ( /\ result'.code = 200
                        /\ time_entries'[i].total_hours < 0
                        /\ time_entries'[i].total_hours = SpecTotalHours(time_entries[i].clock_in, t, used)
                        /\ time_entries'[i].overtime_hours = 0 )
        /\ result'.op = "update_time_entry" =>
            \A p \in LivePrincipals, i \in DOMAIN time_entries :
               ( /\ p.is_admin \/ Owns(p, i)
                 /\ time_entries[i].clock_out # NULL
                 /\ time_entries[i].clock_out > time_entries[i].clock_in
                 /\ 30 > Elapsed(i, time_entries[i].clock_out)
                 /\ UpdateEntry(p, i, [NoUpdate EXCEPT !.break_duration = 30]) )
               => ( /\ result'.code = 200
                    /\ time_entries'[i].total_hours < 0
                    /\ time_entries'[i].total_hours =
                           SpecTotalHours(time_entries[i].clock_in,
                                          time_entries[i].clock_out, 30)
                    /\ time_entries'[i].overtime_hours = 0 )
        /\ (result'.op = "process_payroll_period" /\ result'.code = 200) =>
            \A p \in LivePrincipals :
               ProcessPayrollPeriod(p, 1, 2)
               => \A r \in DOMAIN payroll_records' \ DOMAIN payroll_records :
                      payroll_records'[r].hours_worked =
                          ApprovedHoursUpTo(MaxEntries, payroll_records'[r].employee_id, 1, 2) ]_vars

\* An entry closed ten minutes after the clock-in with a half-hour break holds
\* -0.33 hours, was approved, and the period's record of the employee holds
\* the negative hours.
C22_Witness ==
    /\ result.op = "process_payroll_period"
    /\ result.code = 200
    /\ \E i \in DOMAIN time_entries :
           /\ time_entries[i].employee_id = 12
           /\ time_entries[i].clock_out = 30
           /\ time_entries[i].break_duration = 30
           /\ time_entries[i].total_hours = -33
           /\ time_entries[i].overtime_hours = 0
           /\ time_entries[i].status = "approved"
    /\ \E r \in DOMAIN payroll_records :
           /\ payroll_records[r].employee_id = 12
           /\ payroll_records[r].hours_worked < 0

\* The columns an approval vouches for.
ApprovedColumns(entry) ==
    <<entry.clock_out, entry.break_duration, entry.total_hours,
      entry.overtime_hours, entry.status>>

\* C23: a clock_out or update_time_entry by the non-admin owner of an entry
\* with status approved leaves its clock_out, break_duration, total_hours,
\* overtime_hours and status as they were.
C23_ApprovedEntryFrozenForOwner ==
    [][ result'.op \in {"clock_out", "update_time_entry"} =>
        \A p \in NonAdmins, i \in DOMAIN time_entries :
          ( /\ Owns(p, i)
            /\ time_entries[i].status = "approved"
            /\ \/ \E t \in {20, 560} : ClockOut(p, i, t, 0)
               \/ \E upd \in LifecycleUpdates : UpdateEntry(p, i, upd) )
          => ( /\ i \in DOMAIN time_entries'
               /\ ApprovedColumns(time_entries'[i]) = ApprovedColumns(time_entries[i]) ) ]_vars

\* ======================================================================
\* Pay periods that share dates
\* ======================================================================

\* The admin processes periods that start on a date of the ledger and end up
\* to a day after its last date, and marks records approved or paid; the
\* entries stay as the ledger has them.
PeriodDates == 1..(MaxDate + 1)

NextPeriods ==
    \/ \E p \in Principals, start_date \in PeriodDates, end_date \in PeriodDates :
           ProcessPayrollPeriod(p, start_date, end_date)
    \/ \E p \in Principals, r \in 1..MaxRecords, upd \in AccessUpdates :
           UpdatePayrollRecord(p, r, upd)

SpecPeriods == InitPayroll /\ [][NextPeriods]_vars

\* The records that took in the hours of the entry: those of its employee
\* whose period holds its date (under SpecPeriods every record comes from
\* process_payroll_period and the entries never change).
RecordsIncluding(i) ==
    { r \in DOMAIN payroll_records :
        /\ payroll_records[r].employee_id = time_entries[i].employee_id
        /\ payroll_records[r].pay_period_start <= time_entries[i].date
        /\ time_entries[i].date <= payroll_records[r].pay_period_end }

\* C24: the hours of an approved entry are included in at most one payroll
\* record of its employee.
C24_EntryPaidOnce ==
    \A i \in DOMAIN time_entries :
        (time_entries[i].status = "approved" /\ time_entries[i].total_hours # NULL)
        => Cardinality(RecordsIncluding(i)) <= 1

\* ======================================================================
\* The pay of one employee for a period
\* ======================================================================

\* The rows of employees 11 and 12 as the employees table may hold them:
\* employment_type is a plain String column, and calculate_payroll tests it
\* for "hourly"; the rate is absent, 20.00 or 36.06 an hour.
PayslipEmployees ==
    { [EmployeeTable[e] EXCEPT !.employment_type = t, !.hourly_rate = rate] :
        e \in {11, 12}, t \in {"full_time", "hourly"}, rate \in {NULL, 2000, 3606} }

\* The loop of process_payroll_period for one employee row and period, on the
\* ledger as it is: the response holds the row, the period and the amounts
\* and hours of the record the loop builds.
Payslip(employee, start_date, end_date) ==
    /\ result' = [Response("process_payroll_period", 200, "") EXCEPT
           !.period = <<start_date, end_date>>,
           !.body = { [employee |-> employee,
                       calculation |-> EmployeePayroll(employee, time_entries,
                                                       start_date, end_date)] }]
    /\ UNCHANGED <<users, time_entries, payroll_records, clock_outs, pending>>

\* The periods are those process_payroll_period lets through.
NextPayslip ==
    \E employee \in PayslipEmployees, start_date \in PeriodDates, end_date \in PeriodDates :
        /\ ~InvalidPeriod(start_date, end_date)
        /\ Payslip(employee, start_date, end_date)

SpecPayslip == InitPayroll /\ [][NextPayslip]_vars

====
